---- MODULE Spec2Model ----
(***************************************************************************)
(* caddy-dev (src/main.rs): one invocation of the command-line tool.       *)
(* Strings are sequences of one-character strings, files are either NoFile *)
(* or their content, and the three commands generate / init / reload are   *)
(* followed statement by statement through the program counter pc.         *)
(***************************************************************************)
EXTENDS Naturals, Integers, Sequences, FiniteSets, TLC

VARIABLES
    cmd,              \* the subcommand selected by Args::parse
    pc,               \* position in the selected handler; "exit" once the process ended
    exit_code,        \* process exit status; -1 while running
    failure,          \* the fatal error that ended the run, "none" otherwise
    io,               \* the file and process operations performed so far, in order
    rawVars,          \* the --var arguments as typed
    vars,             \* HashMap<String, String> built at line 106
    template_content, \* text read from the template file
    result,           \* the evolving substitution result (line 109)
    remaining,        \* keys of vars the loop at line 110 has not visited yet
    devFile,          \* <output-dir>/Caddyfile.dev on disk
    home,             \* dirs::home_dir(): a path, or NoHome
    cfgFile,          \* <config-dir>/Caddyfile on disk
    cfgFile0,         \* its content when the invocation started
    confirmAnswer,    \* what the user answered to the overwrite prompt
    responses,        \* the responses read by the folder loop, as typed
    folders           \* Vec<String> folders (line 182)

vars_all == <<cmd, pc, exit_code, failure, io, rawVars, vars, template_content, result,
              remaining, devFile, home, cfgFile, cfgFile0, confirmAnswer, responses, folders>>

-----------------------------------------------------------------------------
(* Bounds of the model *)

\* at most this many --var arguments on the command line
MaxVars == 2
\* templates are concatenations of at most this many pieces
MaxTemplateParts == 2
\* the folder loop is followed for at most this many stored entries
MaxFolders == 2

-----------------------------------------------------------------------------
(* Values *)

\* an absent file and an unknown home directory: one-element sequences that no
\* text equals, since a text holds single characters only
NoFile == <<"(no file)">>
NoHome == <<"(no home)">>
NoAnswer == "NoAnswer"

\* exit status of a Rust process whose main thread panicked
PanicExitCode == 101
\* exit status clap's Error::exit uses for a usage error
ClapUsageExitCode == 2

RECURSIVE Concat(_)
Concat(ss) == IF ss = <<>> THEN <<>> ELSE Head(ss) \o Concat(Tail(ss))

SeqsUpTo(S, n) == UNION {[1..k -> S] : k \in 0..n}

StartsWith(s, p) == Len(s) >= Len(p) /\ SubSeq(s, 1, Len(p)) = p

Contains(s, c) == \E i \in 1..Len(s) : s[i] = c

-----------------------------------------------------------------------------
(* Inputs *)

\* --var arguments: well-formed ones, a value holding a placeholder, a missing '=',
\* an empty key and a second '='
RawArgs == { <<"a", "=", "X">>, <<"a", "=", "{", "{", "b", "}", "}">>, <<"b", "=", "Y">>, <<"n", "o", "v", "a", "l", "u", "e">>, <<"=", "v">>, <<"a", "=", "b", "=", "c">> }

TemplatePieces == { <<"{", "{", "a", "}", "}">>, <<"{", "{", "b", "}", "}">>, <<"{", "{", "n", "}", "}">>, <<"x">> }

Templates == { Concat(ps) : ps \in SeqsUpTo(TemplatePieces, MaxTemplateParts) }

HomeDir == <<"/", "h">>

\* responses to the folder prompt
EntryInputs == { <<>>, <<" ">>, <<"/", "s", "r", "v", "/", "a", "p", "p">>, <<"/", "s", "r", "v", "/", "a", "p", "p", "/">>, <<"p", "r", "o", "j", "/", "*", "/", "d", "e", "v">>, <<"p", "*", "/">>, <<"q", "?">>,
                 <<"~">>, <<"~", "/", "s", "u", "b">>, <<"~", "u", "/", "s", "u", "b">> }

\* a configuration file left by an earlier run or edited by hand
PriorConfig == <<"i", "m", "p", "o", "r", "t", " ", "/", "o", "l", "d", "/", "*", "/", "C", "a", "d", "d", "y", "f", "i", "l", "e", ".", "d", "e", "v", "\n">>

PriorDev == <<"o", "l", "d">>

ConfirmAnswers == {"y", "n", "default"}

-----------------------------------------------------------------------------
(* parse_key_val and the variable map *)

\* index of the first c in s, 0 if none
FirstIndex(s, c) == IF Contains(s, c) THEN CHOOSE i \in 1..Len(s) : s[i] = c /\ \A j \in 1..(i-1) : s[j] # c
                    ELSE 0

\* s.splitn(2, '='): at most two parts, split at the first '='
Splitn2(s) == LET i == FirstIndex(s, "=")
              IN IF i = 0 THEN <<s>>
                 ELSE <<SubSeq(s, 1, i - 1), SubSeq(s, i + 1, Len(s))>>

parse_key_val_lenient(s) == LET parts == Splitn2(s)
                            IN IF Len(parts) # 2 THEN [ok |-> TRUE, key |-> s, value |-> <<>>]
                               ELSE [ok |-> TRUE, key |-> parts[1], value |-> parts[2]]

parse_key_val(s) == LET parts == Splitn2(s)
                    IN IF Len(parts) # 2 THEN [ok |-> FALSE, key |-> <<>>, value |-> <<>>]
                       ELSE [ok |-> TRUE, key |-> parts[1], value |-> parts[2]]

\* variables.into_iter().collect::<HashMap<_, _>>(): a later duplicate key overrides
CollectVars(raws) ==
    LET ps == [i \in 1..Len(raws) |-> parse_key_val(raws[i])]
        keys == {ps[i].key : i \in 1..Len(raws)}
        last(k) == CHOOSE i \in 1..Len(raws) : ps[i].key = k /\ \A j \in (i+1)..Len(raws) : ps[j].key # k
    IN [k \in keys |-> ps[last(k)].value]

-----------------------------------------------------------------------------
(* Substitution *)

\* format!("{{{{{}}}}}", key)
Placeholder(key) == <<"{", "{">> \o key \o <<"}", "}">>

\* str::replace: the non-overlapping matches of pat, left to right; the text put in
\* is not scanned again
RECURSIVE Replace(_, _, _)
Replace(s, pat, to) ==
    IF Len(s) < Len(pat) THEN s
    ELSE IF SubSeq(s, 1, Len(pat)) = pat
         THEN to \o Replace(SubSeq(s, Len(pat) + 1, Len(s)), pat, to)
         ELSE <<Head(s)>> \o Replace(Tail(s), pat, to)

-----------------------------------------------------------------------------
(* Paths and the generated configuration *)

IsWhitespace(c) == c \in {" ", "\t", "\n"}

\* str::trim().is_empty()
TrimIsEmpty(s) == \A i \in 1..Len(s) : IsWhitespace(s[i])

\* PathBuf::join followed by to_string_lossy: an absolute argument replaces the base
Join(base, rel) ==
    IF StartsWith(rel, <<"/">>) THEN rel
    ELSE IF base # <<>> /\ base[Len(base)] = "/" THEN base \o rel
    ELSE base \o <<"/">> \o rel

\* folder.trim_end_matches('/')
RECURSIVE TrimEndSlashes(_)
TrimEndSlashes(s) ==
    IF s # <<>> /\ s[Len(s)] = "/" THEN TrimEndSlashes(SubSeq(s, 1, Len(s) - 1)) ELSE s

ConfigHeader ==
    <<"#", " ", "A", "u", "t", "o", "-", "g", "e", "n", "e", "r", "a", "t", "e", "d", " ", "b", "y", " ", "c", "a", "d", "d", "y", "-", "d", "e", "v", " ", "i", "n", "i", "t", "\n">>
    \o <<"#", " ", "E", "d", "i", "t", " ", "t", "h", "i", "s", " ", "f", "i", "l", "e", " ", "o", "r", " ", "r", "u", "n", " ", "'", "c", "a", "d", "d", "y", "-", "d", "e", "v", " ", "i", "n", "i", "t", "'", " ", "t", "o", " ", "r", "e", "c", "o", "n", "f", "i", "g", "u", "r", "e", "\n", "\n">>
    \o <<"#", " ", "I", "m", "p", "o", "r", "t", " ", "C", "a", "d", "d", "y", "f", "i", "l", "e", ".", "d", "e", "v", " ", "f", "i", "l", "e", "s", " ", "f", "r", "o", "m", " ", "c", "o", "n", "f", "i", "g", "u", "r", "e", "d", " ", "f", "o", "l", "d", "e", "r", "s", "\n">>

ImportLineAlwaysSuffix(clean_folder) == <<"i", "m", "p", "o", "r", "t", " ">> \o clean_folder \o <<"/", "*", "/", "C", "a", "d", "d", "y", "f", "i", "l", "e", ".", "d", "e", "v", "\n">>

\* lines 226-233
ImportLine(clean_folder) ==
    IF Contains(clean_folder, "*") \/ Contains(clean_folder, "?")
    THEN <<"i", "m", "p", "o", "r", "t", " ">> \o clean_folder \o <<"\n">>
    ELSE <<"i", "m", "p", "o", "r", "t", " ">> \o clean_folder \o <<"/", "*", "/", "C", "a", "d", "d", "y", "f", "i", "l", "e", ".", "d", "e", "v", "\n">>

\* one iteration of the loop at line 221
FolderBlock(folder) == <<"#", " ", "P", "a", "t", "t", "e", "r", "n", ":", " ">> \o folder \o <<"\n">> \o ImportLine(TrimEndSlashes(folder))

ConfigContent(fs) == ConfigHeader \o Concat([i \in 1..Len(fs) |-> FolderBlock(fs[i])])

AppendToFile(old, new) == IF old = NoFile THEN new ELSE old \o new

\* fs::write: the file holds exactly the new content
WriteFile(old, new) == new

\* what a failed fs::write can leave: the file as it was, or created/truncated
AfterFailedWrite(old) == {old, <<>>}

ConfirmDefaultYes(answer) == answer # "n"

\* Confirm::new().default(false).interact(): Enter alone takes the default
ConfirmResult(answer) == answer = "y"

-----------------------------------------------------------------------------
(* The state machine *)

Init ==
    /\ cmd = "none"
    /\ pc = "main"
    /\ exit_code = -1
    /\ failure = "none"
    /\ io = <<>>
    /\ rawVars = <<>>
    /\ vars = <<>>
    /\ template_content = <<>>
    /\ result = <<>>
    /\ remaining = {}
    /\ devFile \in {NoFile, PriorDev}
    /\ home \in {NoHome, HomeDir}
    /\ cfgFile \in {NoFile, PriorConfig}
    /\ cfgFile0 = cfgFile
    /\ confirmAnswer = NoAnswer
    /\ responses = <<>>
    /\ folders = <<>>

Exit(code, why) ==
    /\ pc' = "exit"
    /\ exit_code' = code
    /\ failure' = why

GenVars == <<rawVars, vars, template_content, result, remaining, devFile>>
InitVars == <<confirmAnswer, responses, folders>>

\* Args::parse() with `generate`: clap runs parse_key_val on every --var and exits
\* with a usage error if one fails; otherwise main calls generate_caddyfile_dev
MainGenerate ==
    /\ pc = "main"
    /\ cmd' = "generate"
    /\ \E raws \in SeqsUpTo(RawArgs, MaxVars) :
        /\ rawVars' = raws
        /\ IF \E i \in 1..Len(raws) : ~parse_key_val(raws[i]).ok
           THEN Exit(ClapUsageExitCode, "malformed_var")
           ELSE /\ pc' = "gen_check_dir"
                /\ UNCHANGED <<exit_code, failure>>
    /\ UNCHANGED <<io, vars, template_content, result, remaining, devFile, home,
                   cfgFile, cfgFile0, InitVars>>

\* lines 80-87
GenCheckDir ==
    /\ pc = "gen_check_dir"
    /\ \E is_dir \in BOOLEAN :
        \* an existing Caddyfile.dev lives in the default output directory
        /\ (devFile # NoFile => is_dir)
        /\ IF ~is_dir THEN Exit(1, "output_dir")
           ELSE /\ pc' = "gen_read"
                /\ UNCHANGED <<exit_code, failure>>
    /\ UNCHANGED <<cmd, io, GenVars, home, cfgFile, cfgFile0, InitVars>>

\* lines 90-109
GenReadTemplate ==
    /\ pc = "gen_read"
    /\ io' = Append(io, "read_template")
    /\ \E t \in Templates \cup {NoFile} :
        IF t = NoFile
        THEN /\ Exit(1, "template_unreadable")
             /\ UNCHANGED <<vars, template_content, result, remaining>>
        ELSE /\ template_content' = t
             /\ vars' = CollectVars(rawVars)
             /\ result' = t
             /\ remaining' = DOMAIN CollectVars(rawVars)
             /\ pc' = "gen_subst"
             /\ UNCHANGED <<exit_code, failure>>
    /\ UNCHANGED <<cmd, rawVars, devFile, home, cfgFile, cfgFile0, InitVars>>

\* lines 110-113: one iteration; a HashMap yields its keys in an unspecified order
GenSubstitute ==
    /\ pc = "gen_subst"
    /\ remaining # {}
    /\ \E key \in remaining :
        /\ result' = Replace(result, Placeholder(key), vars[key])
        /\ remaining' = remaining \ {key}
    /\ UNCHANGED <<cmd, pc, exit_code, failure, io, rawVars, vars, template_content,
                   devFile, home, cfgFile, cfgFile0, InitVars>>

\* lines 116-133
GenWrite ==
    /\ pc = "gen_subst"
    /\ remaining = {}
    /\ io' = Append(io, "write_dev")
    /\ \/ /\ devFile' = WriteFile(devFile, result)
          /\ Exit(0, "none")
       \/ /\ devFile' \in AfterFailedWrite(devFile)
          /\ Exit(1, "write_dev")
    /\ UNCHANGED <<cmd, rawVars, vars, template_content, result, remaining, home,
                   cfgFile, cfgFile0, InitVars>>

\* Args::parse() with `init`
MainInit ==
    /\ pc = "main"
    /\ cmd' = "init"
    /\ pc' = "init_mkdir"
    /\ UNCHANGED <<exit_code, failure, io, GenVars, home, cfgFile, cfgFile0, InitVars>>

\* lines 143-151
InitCreateDir ==
    /\ pc = "init_mkdir"
    /\ io' = Append(io, "create_dir_all")
    /\ \E ok \in BOOLEAN :
        \* the directory of an existing configuration file exists already
        /\ (cfgFile # NoFile => ok)
        /\ IF ~ok THEN Exit(1, "create_dir")
           ELSE /\ pc' = IF cfgFile # NoFile THEN "init_confirm" ELSE "init_prompt"
                /\ UNCHANGED <<exit_code, failure>>
    /\ UNCHANGED <<cmd, GenVars, home, cfgFile, cfgFile0, InitVars>>

\* lines 157-171
InitConfirm ==
    /\ pc = "init_confirm"
    /\ io' = Append(io, "confirm")
    /\ \/ /\ Exit(PanicExitCode, "input_read")
          /\ UNCHANGED confirmAnswer
       \/ \E answer \in ConfirmAnswers :
            /\ confirmAnswer' = answer
            /\ IF ~ConfirmResult(answer) THEN Exit(0, "none")
               ELSE /\ pc' = "init_prompt"
                    /\ UNCHANGED <<exit_code, failure>>
    /\ UNCHANGED <<cmd, GenVars, home, cfgFile, cfgFile0, responses, folders>>

\* lines 185-205: one iteration of the folder loop
InitPrompt ==
    /\ pc = "init_prompt"
    /\ io' = Append(io, "prompt")
    /\ \/ /\ Exit(PanicExitCode, "input_read")
          /\ UNCHANGED <<responses, folders>>
       \/ \E input \in EntryInputs :
            /\ responses' = Append(responses, input)
            /\ IF TrimIsEmpty(input)
               THEN /\ pc' = "init_save"
                    /\ UNCHANGED <<exit_code, failure, folders>>
               ELSE /\ Len(folders) < MaxFolders
                    /\ IF StartsWith(input, <<"~">>) /\ home # NoHome
                       THEN IF Len(input) < 2
                            \* &input[2..] with the start past the end of the string
                            THEN /\ Exit(PanicExitCode, "slice_out_of_range")
                                 /\ UNCHANGED folders
                            ELSE /\ folders' = Append(folders, Join(home, SubSeq(input, 3, Len(input))))
                                 /\ UNCHANGED <<pc, exit_code, failure>>
                       ELSE /\ folders' = Append(folders, input)
                            /\ UNCHANGED <<pc, exit_code, failure>>
    /\ UNCHANGED <<cmd, GenVars, home, cfgFile, cfgFile0, confirmAnswer>>

InitSaveNoEmptyCheck ==
    /\ pc = "init_save"
    /\ io' = Append(io, "write_config")
    /\ cfgFile' = WriteFile(cfgFile, ConfigContent(folders))
    /\ Exit(0, "none")
    /\ UNCHANGED <<cmd, GenVars, home, cfgFile0, InitVars>>

\* lines 208-249
InitSave ==
    /\ pc = "init_save"
    /\ IF folders = <<>>
       THEN /\ Exit(0, "none")
            /\ UNCHANGED <<io, cfgFile>>
       ELSE /\ io' = Append(io, "write_config")
            /\ \/ /\ cfgFile' = WriteFile(cfgFile, ConfigContent(folders))
                  /\ Exit(0, "none")
               \/ /\ cfgFile' \in AfterFailedWrite(cfgFile)
                  /\ Exit(1, "write_config")
    /\ UNCHANGED <<cmd, GenVars, home, cfgFile0, InitVars>>

\* Args::parse() with `reload`
MainReload ==
    /\ pc = "main"
    /\ cmd' = "reload"
    /\ pc' = "reload_check"
    /\ UNCHANGED <<exit_code, failure, io, GenVars, home, cfgFile, cfgFile0, InitVars>>

ReloadNoCheck ==
    /\ pc = "reload_check"
    /\ io' = Append(io, "exists_config")
    /\ pc' = "reload_spawn"
    /\ UNCHANGED <<cmd, exit_code, failure, GenVars, home, cfgFile, cfgFile0, InitVars>>

\* lines 254-268
ReloadCheck ==
    /\ pc = "reload_check"
    /\ io' = Append(io, "exists_config")
    /\ IF cfgFile = NoFile THEN Exit(1, "config_missing")
       ELSE /\ pc' = "reload_spawn"
            /\ UNCHANGED <<exit_code, failure>>
    /\ UNCHANGED <<cmd, GenVars, home, cfgFile, cfgFile0, InitVars>>

\* lines 271-284: Command::status() fails to start caddy, or caddy ends with
\* status 0, with another status, or killed by a signal (no exit code)
ReloadSpawn ==
    /\ pc = "reload_spawn"
    /\ io' = Append(io, "spawn_caddy")
    /\ \E outcome \in {"cannot_start", "zero", "nonzero", "no_code"} :
        CASE outcome = "cannot_start" -> Exit(PanicExitCode, "spawn")
          [] outcome = "zero" -> Exit(0, "none")
          [] outcome = "nonzero" -> Exit(1, "caddy_nonzero")
          [] outcome = "no_code" -> Exit(1, "caddy_no_code")
    /\ UNCHANGED <<cmd, GenVars, home, cfgFile, cfgFile0, InitVars>>

Next ==
    \/ MainGenerate
    \/ GenCheckDir
    \/ GenReadTemplate
    \/ GenSubstitute
    \/ GenWrite
    \/ MainInit
    \/ InitCreateDir
    \/ InitConfirm
    \/ InitPrompt
    \/ InitSave
    \/ MainReload
    \/ ReloadCheck
    \/ ReloadSpawn

Spec == Init /\ [][Next]_vars_all

-----------------------------------------------------------------------------
(* Properties *)

GenerateSucceeded == cmd = "generate" /\ pc = "exit" /\ exit_code = 0
InitSucceeded == cmd = "init" /\ pc = "exit" /\ exit_code = 0

\* the substitution the specification describes: one scan of the template in which
\* each {{k}} with k a key is replaced by its value and nothing put in is scanned
RECURSIVE SinglePass(_, _)
SinglePass(t, V) ==
    IF t = <<>> THEN <<>>
    ELSE LET hits == {k \in DOMAIN V : StartsWith(t, Placeholder(k))}
         IN IF hits # {}
            THEN LET k == CHOOSE k \in hits : TRUE
                 IN V[k] \o SinglePass(SubSeq(t, Len(Placeholder(k)) + 1, Len(t)), V)
            ELSE <<Head(t)>> \o SinglePass(Tail(t), V)

\* C1: the output of generate is the template with every {{k}}, k a key, replaced by
\* V[k], every other placeholder left as it is, and no text brought in by a value
\* substituted by another key
C1_SinglePassSubstitution ==
    GenerateSucceeded => devFile = SinglePass(template_content, vars)

\* the orders in which a map with key set S can be iterated
Orders(S) == {f \in [1..Cardinality(S) -> S] : \A i, j \in 1..Cardinality(S) : f[i] = f[j] => i = j}

RECURSIVE RenderInOrder(_, _, _)
RenderInOrder(t, V, order) ==
    IF order = <<>> THEN t
    ELSE RenderInOrder(Replace(t, Placeholder(Head(order)), V[Head(order)]), V, Tail(order))

\* C2: the output of generate is the same whatever order the keys of the variable
\* map are iterated in
C2_OrderIndependent ==
    GenerateSucceeded =>
        \A order \in Orders(DOMAIN vars) : RenderInOrder(template_content, vars, order) = devFile

CountOf(s, c) == Cardinality({i \in 1..Len(s) : s[i] = c})

\* a non-empty key, exactly one '=', a value
WellFormedVar(s) == CountOf(s, "=") = 1 /\ s[1] # "="

RECURSIVE SplitLines(_)
SplitLines(s) ==
    IF s = <<>> THEN <<>>
    ELSE LET i == FirstIndex(s, "\n")
         IN IF i = 0 THEN <<s>>
            ELSE <<SubSeq(s, 1, i - 1)>> \o SplitLines(SubSeq(s, i + 1, Len(s)))

IsImportLine(l) == StartsWith(l, <<"i", "m", "p", "o", "r", "t", " ">>)

ImportLines(s) == SelectSeq(SplitLines(s), IsImportLine)

HasWildcard(e) == Contains(e, "*") \/ Contains(e, "?")

\* C4 as stated: the i-th import line is the i-th entry verbatim if it holds a
\* wildcard, and the entry followed by /*/Caddyfile.dev otherwise
C4_ImportLinePerEntry ==
    (InitSucceeded /\ folders # <<>>) =>
        ImportLines(cfgFile) =
            [i \in 1..Len(folders) |->
                <<"i", "m", "p", "o", "r", "t", " ">> \o (IF HasWildcard(folders[i]) THEN folders[i]
                              ELSE folders[i] \o <<"/", "*", "/", "C", "a", "d", "d", "y", "f", "i", "l", "e", ".", "d", "e", "v">>)]

\* C4 amended: the same with every entry first stripped of its trailing slashes
C4_ImportLinePerTrimmedEntry ==
    (InitSucceeded /\ folders # <<>>) =>
        ImportLines(cfgFile) =
            [i \in 1..Len(folders) |->
                LET e == TrimEndSlashes(folders[i])
                IN <<"i", "m", "p", "o", "r", "t", " ">> \o (IF HasWildcard(e) THEN e ELSE e \o <<"/", "*", "/", "C", "a", "d", "d", "y", "f", "i", "l", "e", ".", "d", "e", "v">>)]

C4_Witness ==
    /\ InitSucceeded
    /\ folders = << <<"/", "s", "r", "v", "/", "a", "p", "p", "/">>, <<"p", "r", "o", "j", "/", "*", "/", "d", "e", "v">> >>
    /\ ImportLines(cfgFile) = << <<"i", "m", "p", "o", "r", "t", " ", "/", "s", "r", "v", "/", "a", "p", "p", "/", "*", "/", "C", "a", "d", "d", "y", "f", "i", "l", "e", ".", "d", "e", "v">>, <<"i", "m", "p", "o", "r", "t", " ", "p", "r", "o", "j", "/", "*", "/", "d", "e", "v">> >>

ZeroEntriesCollected == cmd = "init" /\ responses # <<>> /\ TrimIsEmpty(responses[1])

\* C5: an init run whose first response is empty leaves the configuration file as
\* it was and exits with code 0, with or without an overwrite confirmation before
C5_ZeroEntriesKeepFile ==
    ZeroEntriesCollected =>
        /\ cfgFile = cfgFile0
        /\ "write_config" \notin {io[i] : i \in 1..Len(io)}
        /\ pc \in {"init_save", "exit"}
        /\ pc = "exit" => exit_code = 0

C5_Witness ==
    /\ ZeroEntriesCollected /\ pc = "exit"
    /\ confirmAnswer = "y" /\ cfgFile = PriorConfig

\* C6: an init run that finds the configuration file and whose overwrite prompt is
\* declined, or answered with its default, prompts for no folder, leaves the file as
\* it was and exits with code 0
C6_DeclineKeepsFile ==
    (cmd = "init" /\ confirmAnswer \in {"n", "default"}) =>
        /\ pc = "exit" /\ exit_code = 0
        /\ cfgFile = cfgFile0 /\ cfgFile0 # NoFile
        /\ "prompt" \notin {io[i] : i \in 1..Len(io)}
        /\ responses = <<>>

C6_Witness == cmd = "init" /\ confirmAnswer = "default" /\ pc = "exit" /\ cfgFile = PriorConfig

\* C7: a reload without a configuration file ends with exit code 1 and spawns
\* nothing; caddy is spawned only after the existence check has passed
C7_ReloadNeedsConfig ==
    /\ (cmd = "reload" /\ cfgFile = NoFile) =>
          /\ "spawn_caddy" \notin {io[i] : i \in 1..Len(io)}
          /\ pc \in {"reload_check", "exit"}
          /\ pc = "exit" => exit_code = 1 /\ failure = "config_missing"
    /\ \A i \in 1..Len(io) :
          io[i] = "spawn_caddy" =>
              /\ cfgFile # NoFile
              /\ i > 1 /\ io[i - 1] = "exists_config"

C7_Witness == cmd = "reload" /\ cfgFile = NoFile /\ pc = "exit" /\ io = <<"exists_config">>

\* the fatal errors C8 lists
ListedErrors == {"output_dir", "template_unreadable", "write_dev", "write_config", "create_dir",
                 "input_read", "config_missing", "spawn", "caddy_nonzero", "caddy_no_code"}

\* C8: a run ends with exit code 0 on success and 1 on every listed fatal error
C8_ExitCodes ==
    pc = "exit" =>
        /\ failure = "none" => exit_code = 0
        /\ failure \in ListedErrors => exit_code = 1

\* the entry after its leading ~ and the separator that follows it
AfterTilde(e) == LET r == Tail(e) IN IF StartsWith(r, <<"/">>) THEN Tail(r) ELSE r

\* C9: an entry beginning with ~ is stored as the home directory joined with the rest
\* of the entry, or as typed when there is no home directory; any other entry is
\* stored as typed; the expansion never ends the run
C9_HomeExpansion ==
    /\ failure # "slice_out_of_range"
    /\ \A i \in 1..Len(folders) :
          folders[i] = IF StartsWith(responses[i], <<"~">>) /\ home # NoHome
                       THEN Join(home, AfterTilde(responses[i]))
                       ELSE responses[i]

OverwriteConfirmed == cmd = "init" /\ cfgFile0 # NoFile /\ confirmAnswer = "y"

\* C10 as stated: a run that found the file and got the overwrite confirmed ends
\* with the file holding the content generated in that run and nothing else
C10_OverwriteDiscardsPrior ==
    (OverwriteConfirmed /\ pc = "exit" /\ exit_code = 0) => cfgFile = ConfigContent(folders)

\* C10 amended: so it is when at least one entry was collected and the run succeeded;
\* with no entry collected the previous content stays
C10_OverwriteDiscardsPriorWhenSaved ==
    (OverwriteConfirmed /\ pc = "exit" /\ exit_code = 0) =>
        IF folders # <<>>
        THEN /\ cfgFile = ConfigContent(folders)
             /\ StartsWith(cfgFile, ConfigHeader)
             /\ Len(ImportLines(cfgFile)) = Len(folders)
        ELSE cfgFile = cfgFile0

C10_Witness ==
    /\ OverwriteConfirmed /\ pc = "exit" /\ exit_code = 0
    /\ Len(folders) = 2 /\ cfgFile # cfgFile0

====
